---- MODULE Spec2Model ----
(***************************************************************************)
(* Model of the generation scheduler of the App component (src/types.ts,   *)
(* lines 60-296): the React state gridData / queue / processing, the two   *)
(* effects, the asynchronous processQueue and the control handlers.        *)
(*                                                                         *)
(* React semantics assumed by the model: the state updates issued by one   *)
(* handler, one effect or one continuation of processQueue are batched     *)
(* into one render, so each of these is one action.  The effects of a      *)
(* render run before any other event is handled, so handlers and effects   *)
(* read the state of the latest render; functional updaters                *)
(* (setGridData(prev => ...)) read the current state.  The queue effect    *)
(* (useEffect on [queue, processing]) runs after every render that changed *)
(* queue or processing; a run whose condition is false changes nothing and *)
(* is not a step, a run whose condition holds is the action QueueEffect.   *)
(*                                                                         *)
(* A cell id `${x}-${y}-${z}` is modelled by the tuple <<x, y, z>> (the    *)
(* encoding is injective for the step counts 2..5); texts are sequences of *)
(* tokens; a field that is undefined in JavaScript holds Undefined.        *)
(***************************************************************************)
EXTENDS Integers, Sequences, FiniteSets, TLC

(***************************************************************************)
(* Program constants.                                                      *)
(***************************************************************************)
SOURCE_LEVELS == 5
MAX_CONCURRENT_REQUESTS == 1
\* the smallest step count the axis buttons offer ([2, 3, 4, 5])
MinSteps == 2
\* the largest step count the axis buttons offer
MaxSteps == 5
\* useState<AxisConfig>({ x: 5, y: 5, z: 5 })
DefaultSteps == 5
\* the delays of processQueue, in milliseconds
SETTLE_DELAY == 2000
SUCCESS_DELAY == 4000
RATE_LIMIT_DELAY == 30000
ERROR_DELAY == 1000
RATE_LIMIT_STATUS == 429

(***************************************************************************)
(* Bounds of the model.                                                    *)
(***************************************************************************)
\* the largest step count offered on each axis (5 in the program)
MaxStepsX == 3
MaxStepsY == 2
MaxStepsZ == 2
\* the number of user operations (clicks, edits) in one behaviour
MaxOps == 3
\* the same, in the behaviours that work on single cells only (SpecCells)
MaxCellOps == 4
\* the number of collaborator calls that fail in one behaviour
MaxFailures == 1
\* the number of cell ids the user hands to addToQueue in one behaviour
MaxRequests == 10
\* axis and slice buttons clicked in the behaviours of SpecGrid
MaxGridOps == 3
\* the operations of the user in the behaviours of SpecSuccess
MaxSuccessOps == 3
\* the operations of the user and the collaborator calls that fail in the
\* behaviours of SpecDrain
MaxDrainOps == 2
MaxDrainFailures == 2
\* the largest step count and index mapIndexToDataLevel is applied to in the
\* behaviours of SpecLevels (the smallest is -1)
MaxTotalSteps == 9

Undefined == <<"undefined">>

\* DEFAULT_SUBJECT = "" ; a subject is a sequence of tokens, " " is white space
DEFAULT_SUBJECT == <<>>
Subjects == {<<>>, <<" ">>, <<"A red robot">>}
PROMPT_SUFFIX == "PROMPT_SUFFIX"
X_AXIS == [levels |-> <<"X0", "X1", "X2", "X3", "X4">>]
Y_AXIS == [levels |-> <<"Y0", "Y1", "Y2", "Y3", "Y4">>]
Z_AXIS == [levels |-> <<"Z0", "Z1", "Z2", "Z3", "Z4">>]

\* what the collaborators answer: a character description, a data URI
DescriptionText == <<"Sun Wukong">>
ImageData == <<"data:image/png;base64">>

\* what the collaborators throw: an error with a status, a message and the
\* text JSON.stringify gives for it
Errors ==
    { [status |-> 429, message |-> <<"quota">>,  json |-> <<"{", "status", "429", "}">>],
      [status |-> 0,   message |-> <<"got", "429", "RESOURCE_EXHAUSTED">>, json |-> <<"{", "}">>],
      [status |-> 0,   message |-> <<"No image data returned from API">>, json |-> <<"{", "}">>] }

NoError == [status |-> 0, message |-> <<>>, json |-> <<>>]

\* String.prototype.includes for a token
Includes(text, token) == \E i \in 1..Len(text) : text[i] = token

\* String.prototype.trim: white space is dropped at both ends
RECURSIVE TrimStart(_)
TrimStart(s) ==
    IF s # <<>> /\ Head(s) = " " THEN TrimStart(Tail(s)) ELSE s

RECURSIVE TrimEnd(_)
TrimEnd(s) ==
    IF s # <<>> /\ s[Len(s)] = " " THEN TrimEnd(SubSeq(s, 1, Len(s) - 1)) ELSE s

Trim(s) == TrimEnd(TrimStart(s))

\* Math.round of the quotient n / d of two naturals, d > 0 (halves go up)
MathRound(n, d) == (2 * n + d) \div (2 * d)

\* a mapping onto [0, SOURCE_LEVELS] instead of [0, SOURCE_LEVELS - 1]
mapIndexToDataLevelWide(index, totalSteps) ==
    IF totalSteps <= 1 THEN 0
    ELSE MathRound(index * SOURCE_LEVELS, totalSteps - 1)

\* a mapping without the guard for a single step
mapIndexToDataLevelUnguarded(index, totalSteps) ==
    IF totalSteps <= 1 THEN index
    ELSE MathRound(index * (SOURCE_LEVELS - 1), totalSteps - 1)

\* a mapping that multiplies the index by a whole step
mapIndexToDataLevelByStep(index, totalSteps) ==
    IF totalSteps <= 1 THEN 0
    ELSE index * ((SOURCE_LEVELS - 1) \div (totalSteps - 1))

mapIndexToDataLevel(index, totalSteps) ==
    IF totalSteps <= 1 THEN 0
    ELSE MathRound(index * (SOURCE_LEVELS - 1), totalSteps - 1)

(***************************************************************************)
(* The grid.                                                               *)
(***************************************************************************)
AxisConfigs ==
    [x : MinSteps..MaxStepsX, y : MinSteps..MaxStepsY, z : MinSteps..MaxStepsZ]

MkId(x, y, z) == <<x, y, z>>

\* a row loop that runs one step too far (x <= axisConfig.x)
RowIdsOneMore(cfg, y, z) == [i \in 1..(cfg.x + 1) |-> MkId(i - 1, y, z)]

\* the ids in the order the three nested loops insert them: z, then y, then x
RowIds(cfg, y, z) == [i \in 1..cfg.x |-> MkId(i - 1, y, z)]

RECURSIVE Concat(_)
Concat(ss) == IF ss = <<>> THEN <<>> ELSE Head(ss) \o Concat(Tail(ss))

SliceIds(cfg, z) == Concat([j \in 1..cfg.y |-> RowIds(cfg, j - 1, z)])

GridIds(cfg) == Concat([k \in 1..cfg.z |-> SliceIds(cfg, k - 1)])

NewCell(id) ==
    [id |-> id, coord |-> id, prompt |-> <<>>, status |-> "idle",
     imageUrl |-> Undefined, characterDescription |-> Undefined]

Range(s) == {s[i] : i \in 1..Len(s)}

initialGrid(cfg) == [id \in Range(GridIds(cfg)) |-> NewCell(id)]

\* prev[id] spread into a new object: a missing id spreads nothing, and the
\* object has neither id nor coord
Spread(grid, id) ==
    IF id \in DOMAIN grid THEN grid[id]
    ELSE [id |-> Undefined, coord |-> Undefined, prompt |-> Undefined, status |-> "undefined",
          imageUrl |-> Undefined, characterDescription |-> Undefined]

\* {...prev, [id]: cell}
Put(grid, id, cell) ==
    [k \in DOMAIN grid \cup {id} |-> IF k = id THEN cell ELSE grid[k]]

\* Object.keys after {...prev, [id]: cell}: a new key goes last
PutKey(order, id) == IF id \in Range(order) THEN order ELSE Append(order, id)

\* a prompt builder that always includes the axis details
getPromptForCellWithDetails(coord, subj, includeAxisDetails, cfg) ==
    LET xLevel == mapIndexToDataLevel(coord[1], cfg.x)
        yLevel == mapIndexToDataLevel(coord[2], cfg.y)
        zl     == mapIndexToDataLevel(coord[3], cfg.z)
    IN  subj \o <<". ", "Style: ", X_AXIS.levels[xLevel + 1],
                   "Pose/Energy: ", Y_AXIS.levels[yLevel + 1],
                   "Physical details: ", Z_AXIS.levels[zl + 1], PROMPT_SUFFIX>>

getPromptForCell(coord, subj, includeAxisDetails, cfg) ==
    LET xLevel == mapIndexToDataLevel(coord[1], cfg.x)
        yLevel == mapIndexToDataLevel(coord[2], cfg.y)
        zl     == mapIndexToDataLevel(coord[3], cfg.z)
    IN  IF ~includeAxisDetails
        THEN subj \o <<". ", PROMPT_SUFFIX>>
        ELSE subj \o <<". ", "Style: ", X_AXIS.levels[xLevel + 1],
                       "Pose/Energy: ", Y_AXIS.levels[yLevel + 1],
                       "Physical details: ", Z_AXIS.levels[zl + 1], PROMPT_SUFFIX>>

VARIABLES
    subject, axisConfig, zLevel, gridData, gridOrder, queue, processing,
    running, rejected, opsLeft, failuresLeft, requestsLeft, appended, served, calls,
    last, call

vars ==
    <<subject, axisConfig, zLevel, gridData, gridOrder, queue, processing,
      running, rejected, opsLeft, failuresLeft, requestsLeft, appended, served, calls,
      last, call>>

\* call is one application of mapIndexToDataLevel: its arguments, whether it
\* has returned, and the level it returned
NoCall == [index |-> 0, totalSteps |-> 0, done |-> FALSE, level |-> 0]

\* the budgets of the model (what is left of MaxOps, MaxFailures and
\* MaxRequests), and the history of the queue since the last
\* stop, reset or rebuild: the ids appended to it and the ids taken from it
budgets == <<opsLeft, failuresLeft, requestsLeft>>
history == <<appended, served, calls>>

\* calls counts the collaborator calls issued since the last stop, reset or
\* rebuild: generateCharacterDescription (desc) and generateImage (image)
NoCalls == [desc |-> 0, image |-> 0]

(***************************************************************************)
(* The React state the scheduler works on, as one record, so that the      *)
(* handlers compose with the effect that follows their render.             *)
(***************************************************************************)
Current ==
    [queue |-> queue, processing |-> processing, gridData |-> gridData,
     gridOrder |-> gridOrder, running |-> running, rejected |-> rejected]

Min(a, b) == IF a < b THEN a ELSE b

\* Array.prototype.slice(from) and slice(0, to) of a sequence
SliceTo(s, to) == SubSeq(s, 1, Min(to, Len(s)))
SliceFrom(s, from) == SubSeq(s, Min(from, Len(s)) + 1, Len(s))

\* a merge that keeps every occurrence
UniqueKeepsAll(s) == s

\* Array.from(new Set(s)): the first occurrence of each element, in order
RECURSIVE Unique(_)
Unique(s) ==
    IF s = <<>> THEN <<>>
    ELSE LET init == Unique(SubSeq(s, 1, Len(s) - 1))
             x    == s[Len(s)]
         IN  IF x \in Range(init) THEN init ELSE Append(init, x)

\* a test that forgets the blank subject
NeedsCharacterDefaultOnly(subj) == subj = DEFAULT_SUBJECT

\* !subject.trim() || subject === DEFAULT_SUBJECT
NeedsCharacter(subj) == Trim(subj) = <<>> \/ subj = DEFAULT_SUBJECT

\* The part of the loop body of processQueue that runs before its first
\* await: the attempt of one cell, up to the first collaborator call.
\* error is the error the catch block has caught (NoError: none so far).
\* events is history: the collaborator calls the attempt has issued, their
\* answers and the timers that have fired, in order.
\* atStop is history: stop() was called while the attempt was in flight and
\* its cell loading, and neither reset nor rebuild has happened since.
StartAttempt(id, cell, subj, cfg) ==
    IF NeedsCharacter(subj)
    THEN [id |-> id, coord |-> cell.coord, subject |-> subj, cfg |-> cfg,
          pc |-> "desc", characterDesc |-> subj, useGeneratedCharacter |-> FALSE,
          prompt |-> <<>>, delay |-> 0, error |-> NoError, atStop |-> FALSE,
          events |-> <<"generateCharacterDescription">>]
    ELSE [id |-> id, coord |-> cell.coord, subject |-> subj, cfg |-> cfg,
          pc |-> "image", characterDesc |-> subj, useGeneratedCharacter |-> FALSE,
          prompt |-> getPromptForCell(cell.coord, subj, TRUE, cfg), delay |-> 0,
          error |-> NoError, atStop |-> FALSE,
          events |-> <<"generateImage">>]

\* a processQueue that leaves the cells of its batch as they are
MarkLoadingSkipped(grid, batchIds) == grid

\* a processQueue that marks every queued cell loading
MarkLoadingAllQueued(grid, batchIds) ==
    [k \in DOMAIN grid |->
        IF k \in Range(batchIds) \/ grid[k].status = "queued"
        THEN [grid[k] EXCEPT !.status = "loading"]
        ELSE grid[k]]

\* setGridData(prev => ...) of processQueue: the batch is marked loading
MarkLoading(grid, batchIds) ==
    [k \in DOMAIN grid |->
        IF k \in Range(batchIds) THEN [grid[k] EXCEPT !.status = "loading"]
        ELSE grid[k]]

\* a processQueue that does not set the processing flag on entry
processQueueNoFlag(st, subj, cfg) ==
    LET batchIds       == SliceTo(st.queue, MAX_CONCURRENT_REQUESTS)
        remainingQueue == SliceFrom(st.queue, MAX_CONCURRENT_REQUESTS)
        id             == batchIds[1]
        marked         == MarkLoading(st.gridData, batchIds)
    IN  IF id \notin DOMAIN st.gridData
        THEN [st EXCEPT !.queue = remainingQueue, !.processing = FALSE]
        ELSE IF st.gridData[id].coord = Undefined
        THEN [st EXCEPT !.queue = remainingQueue,
                        !.gridData = marked, !.rejected = @ + 1]
        ELSE [st EXCEPT !.queue = remainingQueue,
                        !.gridData = marked,
                        !.running = Append(@, StartAttempt(id, st.gridData[id], subj, cfg))]

\* processQueue up to its first await.  st is the state of the render whose
\* effect calls it (the closure: queue, gridData, subject, axisConfig).
\*  - no cell for the id: `continue`, so setProcessing(true) and
\*    setProcessing(false) fall in one batch;
\*  - a cell without coord: cell.coord.x throws outside the try block, the
\*    promise is rejected and setProcessing(false) is never reached.
processQueue(st, subj, cfg) ==
    LET batchIds       == SliceTo(st.queue, MAX_CONCURRENT_REQUESTS)
        remainingQueue == SliceFrom(st.queue, MAX_CONCURRENT_REQUESTS)
        id             == batchIds[1]
        marked         == MarkLoading(st.gridData, batchIds)
    IN  IF id \notin DOMAIN st.gridData
        THEN [st EXCEPT !.queue = remainingQueue, !.processing = FALSE]
        ELSE IF st.gridData[id].coord = Undefined
        THEN [st EXCEPT !.queue = remainingQueue, !.processing = TRUE,
                        !.gridData = marked, !.rejected = @ + 1]
        ELSE [st EXCEPT !.queue = remainingQueue, !.processing = TRUE,
                        !.gridData = marked,
                        !.running = Append(@, StartAttempt(id, st.gridData[id], subj, cfg))]

\* the ids an enqueue adds to the queue q: those of ids that q does not hold
NewIds(q, ids) == SubSeq(Unique(q \o ids), Len(q) + 1, Len(Unique(q \o ids)))

\* an enqueue that puts the new ids in front of the queued ones
addToQueuePrepends(st, ids) ==
    [st EXCEPT
        !.queue = NewIds(st.queue, ids) \o st.queue,
        !.gridData = [k \in DOMAIN st.gridData |->
            IF k \in Range(ids) /\ st.gridData[k].status # "success"
                                /\ st.gridData[k].status # "loading"
            THEN [st.gridData[k] EXCEPT !.status = "queued"]
            ELSE st.gridData[k]]]

\* an enqueue that marks only the idle cells
addToQueueMarksIdle(st, ids) ==
    [st EXCEPT
        !.queue = Unique(st.queue \o ids),
        !.gridData = [k \in DOMAIN st.gridData |->
            IF k \in Range(ids) /\ st.gridData[k].status = "idle"
            THEN [st.gridData[k] EXCEPT !.status = "queued"]
            ELSE st.gridData[k]]]

\* an enqueue that marks every named cell queued, whatever its status
addToQueueMarksAll(st, ids) ==
    [st EXCEPT
        !.queue = Unique(st.queue \o ids),
        !.gridData = [k \in DOMAIN st.gridData |->
            IF k \in Range(ids)
            THEN [st.gridData[k] EXCEPT !.status = "queued"]
            ELSE st.gridData[k]]]

\* an enqueue that replaces the queue by the new ids
addToQueueReplaces(st, ids) ==
    [st EXCEPT
        !.queue = Unique(ids),
        !.gridData = [k \in DOMAIN st.gridData |->
            IF k \in Range(ids) /\ st.gridData[k].status # "success"
                                /\ st.gridData[k].status # "loading"
            THEN [st.gridData[k] EXCEPT !.status = "queued"]
            ELSE st.gridData[k]]]

\* an enqueue that drops the ids of the cells that are loading
addToQueueSkipsLoading(st, ids) ==
    LET kept == SelectSeq(ids, LAMBDA k :
                    ~(k \in DOMAIN st.gridData /\ st.gridData[k].status = "loading"))
    IN  [st EXCEPT
            !.queue = Unique(st.queue \o kept),
            !.gridData = [k \in DOMAIN st.gridData |->
                IF k \in Range(ids) /\ st.gridData[k].status # "success"
                                    /\ st.gridData[k].status # "loading"
                THEN [st.gridData[k] EXCEPT !.status = "queued"]
                ELSE st.gridData[k]]]

addToQueue(st, ids) ==
    LET uniqueIds == Unique(st.queue \o ids)
    IN  [st EXCEPT
            !.queue = uniqueIds,
            !.gridData = [k \in DOMAIN st.gridData |->
                IF k \in Range(ids) /\ st.gridData[k].status # "success"
                                    /\ st.gridData[k].status # "loading"
                THEN [st.gridData[k] EXCEPT !.status = "queued"]
                ELSE st.gridData[k]]]

\* the history field atStop of the attempts in flight
MarkAtStop(st) ==
    [i \in 1..Len(st.running) |->
        [st.running[i] EXCEPT !.atStop =
            @ \/ (st.running[i].id \in DOMAIN st.gridData
                   /\ st.gridData[st.running[i].id].status = "loading")]]

ClearAtStop(st) ==
    [i \in 1..Len(st.running) |-> [st.running[i] EXCEPT !.atStop = FALSE]]

\* a stop that empties the queue and leaves the queued cells queued
handleStopKeepsCells(st) == [st EXCEPT !.queue = <<>>]

\* a stop that also turns the loading cells idle
handleStopClearsLoading(st) ==
    [st EXCEPT
        !.queue = <<>>,
        !.gridData = [k \in DOMAIN st.gridData |->
            IF st.gridData[k].status \in {"queued", "loading"}
            THEN [st.gridData[k] EXCEPT !.status = "idle"]
            ELSE st.gridData[k]]]

handleStop(st) ==
    [st EXCEPT
        !.queue = <<>>,
        !.gridData = [k \in DOMAIN st.gridData |->
            IF st.gridData[k].status = "queued"
            THEN [st.gridData[k] EXCEPT !.status = "idle"]
            ELSE st.gridData[k]]]

\* a reset that leaves the processing flag as it is
handleResetKeepsFlag(st) ==
    [st EXCEPT
        !.queue = <<>>,
        !.gridData = [k \in DOMAIN st.gridData |->
            [st.gridData[k] EXCEPT !.status = "idle", !.imageUrl = Undefined]]]

\* a reset that removes the images and leaves the statuses as they are
handleResetKeepsStatus(st) ==
    [st EXCEPT
        !.queue = <<>>,
        !.processing = FALSE,
        !.gridData = [k \in DOMAIN st.gridData |->
            [st.gridData[k] EXCEPT !.imageUrl = Undefined]]]

handleReset(st) ==
    [st EXCEPT
        !.queue = <<>>,
        !.processing = FALSE,
        !.gridData = [k \in DOMAIN st.gridData |->
            [st.gridData[k] EXCEPT !.status = "idle", !.imageUrl = Undefined]]]

\* a rebuild that leaves the queue and the processing flag as they are
rebuildGridOnly(st, cfg) ==
    [st EXCEPT !.gridData = initialGrid(cfg), !.gridOrder = GridIds(cfg)]

\* useEffect on [axisConfig]
rebuildGrid(st, cfg) ==
    [st EXCEPT
        !.queue = <<>>,
        !.processing = FALSE,
        !.gridData = initialGrid(cfg),
        !.gridOrder = GridIds(cfg)]

\* the render after the updates that lead to st
Commit(st) ==
    /\ queue' = st.queue
    /\ processing' = st.processing
    /\ gridData' = st.gridData
    /\ gridOrder' = st.gridOrder
    /\ running' = st.running
    /\ rejected' = st.rejected

\* what the step was, and the state it started from (call belongs to the
\* behaviours of SpecLevels and no step of the component changes it)
Record(op, ids) ==
    /\ last' = [op |-> op, ids |-> ids, queue |-> queue, processing |-> processing,
                gridData |-> gridData, running |-> running]
    /\ UNCHANGED call

InitialConfig == [x |-> MaxStepsX, y |-> MaxStepsY, z |-> MaxStepsZ]

Init ==
    /\ subject = DEFAULT_SUBJECT
    /\ axisConfig = InitialConfig
    /\ zLevel = 0
    /\ gridData = initialGrid(InitialConfig)
    /\ gridOrder = GridIds(InitialConfig)
    /\ queue = <<>>
    /\ processing = FALSE
    /\ running = <<>>
    /\ rejected = 0
    /\ opsLeft = MaxOps
    /\ failuresLeft = MaxFailures
    /\ requestsLeft = MaxRequests
    /\ appended = <<>>
    /\ served = <<>>
    /\ calls = NoCalls
    /\ last = [op |-> "mount", ids |-> <<>>, queue |-> <<>>, processing |-> FALSE,
               gridData |-> initialGrid(InitialConfig), running |-> <<>>]
    /\ call = NoCall

(***************************************************************************)
(* The control surface: what the user can do.  A button that is disabled   *)
(* or not rendered cannot be clicked; a declined window.confirm returns    *)
(* before any update and is a stuttering step.                             *)
(***************************************************************************)
Busy == processing \/ Len(queue) > 0

\* the last render changed queue or processing and left the condition of the
\* queue effect true: the effect is about to call processQueue
EffectPending == ~processing /\ Len(queue) > 0

\* useEffect(() => { if (!processing && queue.length > 0) processQueue() })
QueueEffect ==
    /\ EffectPending
    /\ Commit(processQueue(Current, subject, axisConfig))
    /\ Record("processQueue", SliceTo(queue, MAX_CONCURRENT_REQUESTS))
    /\ served' = served \o SliceTo(queue, MAX_CONCURRENT_REQUESTS)
    /\ calls' = IF Len(running') = Len(running) THEN calls
                ELSE IF running'[Len(running')].pc = "desc"
                     THEN [calls EXCEPT !.desc = @ + 1]
                     ELSE [calls EXCEPT !.image = @ + 1]
    /\ UNCHANGED <<subject, axisConfig, zLevel, budgets, appended>>

\* the cells the user opens in the detail panel: those of the first row of
\* the first slice (the other cells are reached by the bulk operations)
Selectable(id) == id[2] = 0 /\ id[3] = 0

\* an enqueue the budgets MaxOps and MaxRequests allow
Allowed(ids) ==
    ~EffectPending /\ opsLeft > 0 /\ Len(ids) <= requestsLeft

\* the Regenerate button of the detail panel: handleGenerateCell(selectedCell.id)
HandleGenerateCell(id) ==
    /\ id \in DOMAIN gridData
    /\ gridData[id].id # Undefined
    /\ Selectable(id)
    /\ Allowed(<<gridData[id].id>>)
    /\ Commit(addToQueue(Current, <<gridData[id].id>>))
    /\ Record("generateCell", <<gridData[id].id>>)
    /\ opsLeft' = opsLeft - 1
    /\ requestsLeft' = requestsLeft - Len(<<gridData[id].id>>)
    /\ appended' = appended \o NewIds(queue, <<gridData[id].id>>)
    /\ UNCHANGED <<subject, axisConfig, zLevel, failuresLeft, served, calls>>

HandleGenerateSlice ==
    /\ ~Busy
    /\ Allowed(SliceIds(axisConfig, zLevel))
    /\ Commit(addToQueue(Current, SliceIds(axisConfig, zLevel)))
    /\ Record("generateSlice", SliceIds(axisConfig, zLevel))
    /\ opsLeft' = opsLeft - 1
    /\ requestsLeft' = requestsLeft - Len(SliceIds(axisConfig, zLevel))
    /\ appended' = appended \o NewIds(queue, SliceIds(axisConfig, zLevel))
    /\ UNCHANGED <<subject, axisConfig, zLevel, failuresLeft, served, calls>>

\* ids = Object.keys(gridData)
HandleGenerateAll ==
    /\ ~Busy
    /\ Allowed(gridOrder)
    /\ Commit(addToQueue(Current, gridOrder))
    /\ Record("generateAll", gridOrder)
    /\ opsLeft' = opsLeft - 1
    /\ requestsLeft' = requestsLeft - Len(gridOrder)
    /\ appended' = appended \o NewIds(queue, gridOrder)
    /\ UNCHANGED <<subject, axisConfig, zLevel, failuresLeft, served, calls>>

HandleStop ==
    /\ ~EffectPending
    /\ opsLeft > 0
    /\ Busy
    /\ Commit([handleStop(Current) EXCEPT !.running = MarkAtStop(Current)])
    /\ Record("stop", <<>>)
    /\ opsLeft' = opsLeft - 1
    /\ appended' = <<>>
    /\ served' = <<>>
    /\ calls' = NoCalls
    /\ UNCHANGED <<subject, axisConfig, zLevel, failuresLeft, requestsLeft>>

HandleReset ==
    /\ ~EffectPending
    /\ opsLeft > 0
    /\ Commit([handleReset(Current) EXCEPT !.running = ClearAtStop(Current)])
    /\ Record("reset", <<>>)
    /\ opsLeft' = opsLeft - 1
    /\ appended' = <<>>
    /\ served' = <<>>
    /\ calls' = NoCalls
    /\ UNCHANGED <<subject, axisConfig, zLevel, failuresLeft, requestsLeft>>

\* an axis button: setAxisConfig(prev => ({...prev, [axis]: n})), a new object
\* each time, so the effect on [axisConfig] runs even when n is the old value
AxisButton(axis, n) ==
    /\ ~EffectPending
    /\ opsLeft > 0
    /\ axisConfig' = [axisConfig EXCEPT ![axis] = n]
    /\ zLevel' = IF zLevel >= axisConfig'.z THEN axisConfig'.z - 1 ELSE zLevel
    /\ Commit([rebuildGrid(Current, axisConfig') EXCEPT !.running = ClearAtStop(Current)])
    /\ Record("setAxisConfig", <<>>)
    /\ opsLeft' = opsLeft - 1
    /\ appended' = <<>>
    /\ served' = <<>>
    /\ calls' = NoCalls
    /\ UNCHANGED <<subject, failuresLeft, requestsLeft>>

\* the axis buttons that keep the grid within MaxStepsX, MaxStepsY, MaxStepsZ
SetAxisConfig(axis, n) ==
    /\ [axisConfig EXCEPT ![axis] = n] \in AxisConfigs
    /\ AxisButton(axis, n)

SetSubject(s) ==
    /\ ~EffectPending
    /\ opsLeft > 0
    /\ s # subject
    /\ subject' = s
    /\ Record("setSubject", <<>>)
    /\ opsLeft' = opsLeft - 1
    /\ UNCHANGED <<axisConfig, zLevel, gridData, gridOrder, queue, processing,
                   running, rejected, failuresLeft, requestsLeft, history>>

SetZLevel(idx) ==
    /\ ~EffectPending
    /\ opsLeft > 0
    /\ idx # zLevel
    /\ zLevel' = idx
    /\ Record("setZLevel", <<>>)
    /\ opsLeft' = opsLeft - 1
    /\ UNCHANGED <<subject, axisConfig, gridData, gridOrder, queue, processing,
                   running, rejected, failuresLeft, requestsLeft, history>>

(***************************************************************************)
(* The continuations of processQueue.  running[i] is an invocation that    *)
(* has started and not returned; pc names the await it is suspended at.    *)
(***************************************************************************)
RemoveAt(s, i) == SubSeq(s, 1, i - 1) \o SubSeq(s, i + 1, Len(s))

\* a classification that looks at the status only
isRateLimitByStatus(error) == error.status = RATE_LIMIT_STATUS

isRateLimit(error) ==
    \/ Includes(error.json, "429")
    \/ error.status = RATE_LIMIT_STATUS
    \/ Includes(error.message, "429")

\* a continuation that calls generateImage without waiting for the 2 s timer
DescriptionReturnsNoDelay(i) ==
    /\ ~EffectPending
    /\ running[i].pc = "desc"
    /\ running' = [running EXCEPT ![i] =
            [@ EXCEPT !.characterDesc = DescriptionText,
                      !.useGeneratedCharacter = TRUE,
                      !.events = @ \o <<"described", "generateImage">>,
                      !.prompt = getPromptForCell(running[i].coord, DescriptionText,
                                                  FALSE, running[i].cfg),
                      !.pc = "image", !.delay = 0]]
    /\ Record("descriptionReturns", <<running[i].id>>)
    /\ calls' = [calls EXCEPT !.image = @ + 1]
    /\ UNCHANGED <<subject, axisConfig, zLevel, gridData, gridOrder, queue,
                   processing, rejected, budgets, appended, served>>

\* generateCharacterDescription resolves; the 2 s timer is started
DescriptionReturns(i) ==
    /\ ~EffectPending
    /\ running[i].pc = "desc"
    /\ running' = [running EXCEPT ![i] =
            [@ EXCEPT !.characterDesc = DescriptionText,
                      !.useGeneratedCharacter = TRUE,
                      !.events = Append(@, "described"),
                      !.pc = "settle", !.delay = SETTLE_DELAY]]
    /\ Record("descriptionReturns", <<running[i].id>>)
    /\ UNCHANGED <<subject, axisConfig, zLevel, gridData, gridOrder, queue,
                   processing, rejected, budgets, history>>

\* the 2 s timer fires; the prompt is built and generateImage is called
SettleElapses(i) ==
    /\ ~EffectPending
    /\ running[i].pc = "settle"
    /\ running' = [running EXCEPT ![i] =
            [@ EXCEPT !.prompt = getPromptForCell(running[i].coord,
                                                  running[i].characterDesc,
                                                  ~running[i].useGeneratedCharacter,
                                                  running[i].cfg),
                      !.events = @ \o <<"settled", "generateImage">>,
                      !.pc = "image", !.delay = 0]]
    /\ Record("settleElapses", <<running[i].id>>)
    /\ calls' = [calls EXCEPT !.image = @ + 1]
    /\ UNCHANGED <<subject, axisConfig, zLevel, gridData, gridOrder, queue,
                   processing, rejected, budgets, appended, served>>

\* setGridData(prev => ({...prev, [id]: {...prev[id], imageUrl, prompt,
\* characterDescription, status: 'success'}}))
WriteSuccess(grid, inst, base64Image) ==
    Put(grid, inst.id,
        [Spread(grid, inst.id) EXCEPT
            !.imageUrl = base64Image,
            !.prompt = inst.prompt,
            !.characterDescription = inst.characterDesc,
            !.status = "success"])

\* a catch block that leaves the grid as it is
WriteErrorSkipped(grid, inst) == grid

\* a catch block that marks every cell that is not idle as error
WriteErrorAll(grid, inst) ==
    LET g == Put(grid, inst.id, [Spread(grid, inst.id) EXCEPT !.status = "error"])
    IN  [k \in DOMAIN g |->
            IF g[k].status = "idle" THEN g[k] ELSE [g[k] EXCEPT !.status = "error"]]

\* a catch block that also removes the image and the prompt of the cell
WriteErrorClears(grid, inst) ==
    Put(grid, inst.id,
        [Spread(grid, inst.id) EXCEPT
            !.status = "error", !.imageUrl = Undefined, !.prompt = <<>>])

\* setGridData(prev => ({...prev, [id]: {...prev[id], status: 'error'}}))
WriteError(grid, inst) ==
    Put(grid, inst.id, [Spread(grid, inst.id) EXCEPT !.status = "error"])

\* generateImage resolves; the result is written and the 4 s timer started
ImageReturns(i) ==
    /\ ~EffectPending
    /\ running[i].pc = "image"
    /\ gridData' = WriteSuccess(gridData, running[i], ImageData)
    /\ gridOrder' = PutKey(gridOrder, running[i].id)
    /\ running' = [running EXCEPT ![i] =
            [@ EXCEPT !.pc = "cooldown", !.delay = SUCCESS_DELAY,
                      !.events = Append(@, "generated")]]
    /\ Record("imageReturns", <<running[i].id>>)
    /\ UNCHANGED <<subject, axisConfig, zLevel, queue, processing, rejected, budgets, history>>

\* a collaborator call rejects: the catch block
CallThrows(i, error) ==
    /\ ~EffectPending
    /\ failuresLeft > 0
    /\ running[i].pc \in {"desc", "image"}
    /\ gridData' = WriteError(gridData, running[i])
    /\ gridOrder' = PutKey(gridOrder, running[i].id)
    /\ running' = [running EXCEPT ![i] =
            [@ EXCEPT !.pc = "cooldown", !.error = error,
                      !.events = Append(@, "threw"),
                      !.delay = IF isRateLimit(error) THEN RATE_LIMIT_DELAY ELSE ERROR_DELAY]]
    /\ Record("callThrows", <<running[i].id>>)
    /\ failuresLeft' = failuresLeft - 1
    /\ UNCHANGED <<subject, axisConfig, zLevel, queue, processing, rejected, opsLeft, requestsLeft,
                   history>>

\* the timer after the attempt fires: the loop ends, setProcessing(false),
\* and the invocation returns
DelayElapses(i) ==
    /\ ~EffectPending
    /\ running[i].pc = "cooldown"
    /\ Commit([Current EXCEPT !.processing = FALSE, !.running = RemoveAt(running, i)])
    /\ Record("delayElapses", <<running[i].id>>)
    /\ UNCHANGED <<subject, axisConfig, zLevel, budgets, history>>

Next ==
    \/ \E id \in DOMAIN gridData : HandleGenerateCell(id)
    \/ HandleGenerateSlice
    \/ HandleGenerateAll
    \/ HandleStop
    \/ HandleReset
    \/ \E axis \in {"x", "y", "z"} : \E n \in MinSteps..SOURCE_LEVELS : SetAxisConfig(axis, n)
    \/ \E s \in Subjects : SetSubject(s)
    \/ \E idx \in 0..(axisConfig.z - 1) : SetZLevel(idx)
    \/ QueueEffect
    \/ \E i \in 1..Len(running) : DescriptionReturns(i)
    \/ \E i \in 1..Len(running) : SettleElapses(i)
    \/ \E i \in 1..Len(running) : ImageReturns(i)
    \/ \E i \in 1..Len(running) : \E error \in Errors : CallThrows(i, error)
    \/ \E i \in 1..Len(running) : DelayElapses(i)

Spec == Init /\ [][Next]_vars

(***************************************************************************)
(* The behaviours in which the user works on single cells: Regenerate,     *)
(* Stop and Reset, with the initial subject and axis configuration.        *)
(***************************************************************************)
InitCells ==
    /\ subject = DEFAULT_SUBJECT
    /\ axisConfig = InitialConfig
    /\ zLevel = 0
    /\ gridData = initialGrid(InitialConfig)
    /\ gridOrder = GridIds(InitialConfig)
    /\ queue = <<>>
    /\ processing = FALSE
    /\ running = <<>>
    /\ rejected = 0
    /\ opsLeft = MaxCellOps
    /\ failuresLeft = MaxFailures
    /\ requestsLeft = MaxRequests
    /\ appended = <<>>
    /\ served = <<>>
    /\ calls = NoCalls
    /\ last = [op |-> "mount", ids |-> <<>>, queue |-> <<>>, processing |-> FALSE,
               gridData |-> initialGrid(InitialConfig), running |-> <<>>]
    /\ call = NoCall

NextCells ==
    \/ \E id \in DOMAIN gridData : HandleGenerateCell(id)
    \/ HandleStop
    \/ HandleReset
    \/ QueueEffect
    \/ \E i \in 1..Len(running) : DescriptionReturns(i)
    \/ \E i \in 1..Len(running) : SettleElapses(i)
    \/ \E i \in 1..Len(running) : ImageReturns(i)
    \/ \E i \in 1..Len(running) : \E error \in Errors : CallThrows(i, error)
    \/ \E i \in 1..Len(running) : DelayElapses(i)

SpecCells == InitCells /\ [][NextCells]_vars

(***************************************************************************)
(* The behaviours in which the user only configures the grid: the axis     *)
(* buttons, with every step count they offer, and the slice buttons,       *)
(* starting from the configuration the component mounts with.              *)
(***************************************************************************)
MountConfig == [x |-> DefaultSteps, y |-> DefaultSteps, z |-> DefaultSteps]

InitGrid ==
    /\ subject = DEFAULT_SUBJECT
    /\ axisConfig = MountConfig
    /\ zLevel = 0
    /\ gridData = initialGrid(MountConfig)
    /\ gridOrder = GridIds(MountConfig)
    /\ queue = <<>>
    /\ processing = FALSE
    /\ running = <<>>
    /\ rejected = 0
    /\ opsLeft = MaxGridOps
    /\ failuresLeft = 0
    /\ requestsLeft = 0
    /\ appended = <<>>
    /\ served = <<>>
    /\ calls = NoCalls
    /\ last = [op |-> "mount", ids |-> <<>>, queue |-> <<>>, processing |-> FALSE,
               gridData |-> initialGrid(MountConfig), running |-> <<>>]
    /\ call = NoCall

NextGrid ==
    \/ \E axis \in {"x", "y", "z"} : \E n \in MinSteps..SOURCE_LEVELS : AxisButton(axis, n)
    \/ \E idx \in 0..(axisConfig.z - 1) : SetZLevel(idx)

SpecGrid == InitGrid /\ [][NextGrid]_vars

(***************************************************************************)
(* The behaviours in which the collaborators always succeed and the user   *)
(* only enqueues, with a subject that is the default or blank.  A promise  *)
(* of a collaborator that succeeds is resolved and a timer fires, and      *)
(* React runs the effect of a render: the steps of the scheduler are       *)
(* weakly fair.                                                            *)
(***************************************************************************)
\* the subjects that are empty or blank (the default is the empty one)
CharacterSubjects == {s \in Subjects : \A i \in 1..Len(s) : s[i] = " "}

InitSuccess ==
    /\ subject \in CharacterSubjects
    /\ axisConfig = InitialConfig
    /\ zLevel = 0
    /\ gridData = initialGrid(InitialConfig)
    /\ gridOrder = GridIds(InitialConfig)
    /\ queue = <<>>
    /\ processing = FALSE
    /\ running = <<>>
    /\ rejected = 0
    /\ opsLeft = MaxSuccessOps
    /\ failuresLeft = 0
    /\ requestsLeft = MaxRequests
    /\ appended = <<>>
    /\ served = <<>>
    /\ calls = NoCalls
    /\ last = [op |-> "mount", ids |-> <<>>, queue |-> <<>>, processing |-> FALSE,
               gridData |-> initialGrid(InitialConfig), running |-> <<>>]
    /\ call = NoCall

NextSuccess ==
    \/ \E id \in DOMAIN gridData : HandleGenerateCell(id)
    \/ HandleGenerateSlice
    \/ \E s \in CharacterSubjects : SetSubject(s)
    \/ \E idx \in 0..(axisConfig.z - 1) : SetZLevel(idx)
    \/ QueueEffect
    \/ \E i \in 1..Len(running) : DescriptionReturns(i)
    \/ \E i \in 1..Len(running) : SettleElapses(i)
    \/ \E i \in 1..Len(running) : ImageReturns(i)
    \/ \E i \in 1..Len(running) : DelayElapses(i)

SchedulerFairness ==
    /\ WF_vars(QueueEffect)
    /\ WF_vars(\E i \in 1..Len(running) : DescriptionReturns(i))
    /\ WF_vars(\E i \in 1..Len(running) : SettleElapses(i))
    /\ WF_vars(\E i \in 1..Len(running) : ImageReturns(i))
    /\ WF_vars(\E i \in 1..Len(running) : DelayElapses(i))

SpecSuccess == InitSuccess /\ [][NextSuccess]_vars /\ SchedulerFairness

(***************************************************************************)
(* The behaviours in which the user only enqueues (no stop, no reset, no   *)
(* axis change) and every collaborator call is answered, by a result or by *)
(* an error: the answer of a call in flight, the timers and the effect of  *)
(* a render are weakly fair.                                               *)
(***************************************************************************)
InitDrain ==
    /\ subject = DEFAULT_SUBJECT
    /\ axisConfig = InitialConfig
    /\ zLevel = 0
    /\ gridData = initialGrid(InitialConfig)
    /\ gridOrder = GridIds(InitialConfig)
    /\ queue = <<>>
    /\ processing = FALSE
    /\ running = <<>>
    /\ rejected = 0
    /\ opsLeft = MaxDrainOps
    /\ failuresLeft = MaxDrainFailures
    /\ requestsLeft = MaxRequests
    /\ appended = <<>>
    /\ served = <<>>
    /\ calls = NoCalls
    /\ last = [op |-> "mount", ids |-> <<>>, queue |-> <<>>, processing |-> FALSE,
               gridData |-> initialGrid(InitialConfig), running |-> <<>>]
    /\ call = NoCall

NextDrain ==
    \/ \E id \in DOMAIN gridData : HandleGenerateCell(id)
    \/ HandleGenerateSlice
    \/ \E s \in Subjects : SetSubject(s)
    \/ QueueEffect
    \/ \E i \in 1..Len(running) : DescriptionReturns(i)
    \/ \E i \in 1..Len(running) : SettleElapses(i)
    \/ \E i \in 1..Len(running) : ImageReturns(i)
    \/ \E i \in 1..Len(running) : \E error \in Errors : CallThrows(i, error)
    \/ \E i \in 1..Len(running) : DelayElapses(i)

\* a collaborator call in flight is answered
Responds ==
    \E i \in 1..Len(running) :
        \/ DescriptionReturns(i)
        \/ ImageReturns(i)
        \/ \E error \in Errors : CallThrows(i, error)

DrainFairness ==
    /\ WF_vars(QueueEffect)
    /\ WF_vars(Responds)
    /\ WF_vars(\E i \in 1..Len(running) : SettleElapses(i))
    /\ WF_vars(\E i \in 1..Len(running) : DelayElapses(i))

SpecDrain == InitDrain /\ [][NextDrain]_vars /\ DrainFairness

(***************************************************************************)
(* mapIndexToDataLevel on its own: the arguments are drawn when the        *)
(* behaviour starts and the one step applies the function to them.         *)
(***************************************************************************)
InitLevels ==
    /\ subject = DEFAULT_SUBJECT
    /\ axisConfig = InitialConfig
    /\ zLevel = 0
    /\ gridData = initialGrid(InitialConfig)
    /\ gridOrder = GridIds(InitialConfig)
    /\ queue = <<>>
    /\ processing = FALSE
    /\ running = <<>>
    /\ rejected = 0
    /\ opsLeft = 0
    /\ failuresLeft = 0
    /\ requestsLeft = 0
    /\ appended = <<>>
    /\ served = <<>>
    /\ calls = NoCalls
    /\ last = [op |-> "mount", ids |-> <<>>, queue |-> <<>>, processing |-> FALSE,
               gridData |-> initialGrid(InitialConfig), running |-> <<>>]
    /\ \E index \in -1..MaxTotalSteps : \E totalSteps \in -1..MaxTotalSteps :
        call = [index |-> index, totalSteps |-> totalSteps, done |-> FALSE, level |-> 0]

MapIndex ==
    /\ ~call.done
    /\ call' = [call EXCEPT !.done = TRUE,
                            !.level = mapIndexToDataLevel(call.index, call.totalSteps)]
    /\ UNCHANGED <<subject, axisConfig, zLevel, gridData, gridOrder, queue, processing,
                   running, rejected, budgets, history, last>>

NextLevels == MapIndex

SpecLevels == InitLevels /\ [][NextLevels]_vars

(***************************************************************************)
(* Properties of the scheduler.  `last` holds the step that led to the     *)
(* current state and the state it started from, so "immediately after an   *)
(* operation" is a predicate on the current state.                         *)
(***************************************************************************)
EnqueueOps == {"generateCell", "generateSlice", "generateAll"}

StatusOf(grid, k) == grid[k].status

\* C1: at most one processQueue invocation has started and not returned, in
\* every reachable state.
SingleFlight == Len(running) <= MAX_CONCURRENT_REQUESTS

\* C2 as stated: a key is in the queue if and only if its cell is queued
\* (processQueue removes the key and marks the cell in one render, so no
\* state lies between the two).
QueuedIffInQueue ==
    /\ \A k \in DOMAIN gridData :
        (k \in Range(queue)) <=> (StatusOf(gridData, k) = "queued")
    /\ Range(queue) \subseteq DOMAIN gridData

\* C2 amended: every queued cell has its key in the queue, and every key in
\* the queue names a cell of the grid that is not idle (it is queued, or it
\* was loading or success when it was enqueued and kept that status, or it
\* failed since).
QueuedImpliesInQueue ==
    /\ \A k \in DOMAIN gridData :
        StatusOf(gridData, k) = "queued" => k \in Range(queue)
    /\ \A k \in Range(queue) :
        k \in DOMAIN gridData /\ StatusOf(gridData, k) # "idle"

\* C2 witness: the queue holds the key of a success cell next to a queued one
SuccessCellInQueue ==
    /\ \E k \in Range(queue) : StatusOf(gridData, k) = "success"
    /\ \E k \in Range(queue) : StatusOf(gridData, k) = "queued"

\* C3: the key set of the grid is the set of coordinates of the current axis
\* configuration, and every cell carries its id and its coordinate.
GridMatchesConfig ==
    /\ DOMAIN gridData = Range(GridIds(axisConfig))
    /\ \A k \in DOMAIN gridData : gridData[k].id = k /\ gridData[k].coord = k

\* C4: the processing flag is never set with no attempt in progress (nothing
\* but an attempt's end, a reset or a rebuild clears it).
FlagHasAttempt == processing => running # <<>>

\* C5: the queue is first in, first out.  The ids appended since the last
\* stop, reset or rebuild are, in order, the ids taken from the queue
\* followed by the ids still in it; an enqueue keeps the queued ids as a
\* prefix of the queue; processQueue takes the head and marks it loading.
FifoOrder ==
    /\ appended = served \o queue
    /\ last.op \in EnqueueOps =>
        /\ Len(queue) >= Len(last.queue)
        /\ SubSeq(queue, 1, Len(last.queue)) = last.queue
    /\ last.op = "processQueue" =>
        /\ last.ids = <<Head(last.queue)>>
        /\ queue = Tail(last.queue)
        /\ Head(last.queue) \in DOMAIN gridData
            => StatusOf(gridData, Head(last.queue)) = "loading"

\* C5 witness: the second cell of a slice has just been taken from the queue
\* and others wait behind it
SecondCellTaken ==
    /\ last.op = "processQueue"
    /\ Len(served) >= 2
    /\ Len(queue) >= 1
    /\ served[1] # served[2]

\* C6 as stated: the queue holds no id twice, and an enqueue of ids that are
\* all in the queue leaves the queue and every cell unchanged.
RequeueChangesNothing ==
    /\ Cardinality(Range(queue)) = Len(queue)
    /\ (last.op \in EnqueueOps /\ Range(last.ids) \subseteq Range(last.queue)) =>
        queue = last.queue /\ gridData = last.gridData

\* C6 amended: the queue holds no id twice, and an enqueue of ids that are
\* all in the queue leaves the queue unchanged and every cell unchanged,
\* except that a named cell whose attempt failed while its id was in the
\* queue goes from error to queued.
RequeueKeepsQueue ==
    /\ Cardinality(Range(queue)) = Len(queue)
    /\ (last.op \in EnqueueOps /\ Range(last.ids) \subseteq Range(last.queue)) =>
        /\ queue = last.queue
        /\ DOMAIN gridData = DOMAIN last.gridData
        /\ \A k \in DOMAIN gridData :
            \/ gridData[k] = last.gridData[k]
            \/ /\ k \in Range(last.ids)
               /\ StatusOf(last.gridData, k) = "error"
               /\ gridData[k] = [last.gridData[k] EXCEPT !.status = "queued"]

\* C6 witness: Regenerate on a cell whose id is in the queue and whose
\* attempt has failed
RequeueOfFailedCell ==
    /\ last.op = "generateCell"
    /\ last.ids[1] \in Range(last.queue)
    /\ StatusOf(last.gridData, last.ids[1]) = "error"
    /\ StatusOf(gridData, last.ids[1]) = "queued"
    /\ queue = last.queue

\* C7: immediately after an enqueue, every named cell that was success or
\* loading is as it was (status, imageUrl, prompt, characterDescription) and
\* every other named cell is queued.
EnqueueMarksQueued ==
    last.op \in EnqueueOps =>
        \A k \in Range(last.ids) \cap DOMAIN last.gridData :
            IF StatusOf(last.gridData, k) \in {"success", "loading"}
            THEN gridData[k] = last.gridData[k]
            ELSE StatusOf(gridData, k) = "queued"

\* C7 witness: an enqueue that names a success cell, which keeps its image,
\* and an idle cell, which becomes queued
EnqueueOverSuccess ==
    /\ last.op \in EnqueueOps
    /\ \E k \in Range(last.ids) :
        /\ StatusOf(last.gridData, k) = "success"
        /\ gridData[k].imageUrl = ImageData
    /\ \E k \in Range(last.ids) :
        /\ StatusOf(last.gridData, k) = "idle"
        /\ StatusOf(gridData, k) = "queued"

\* C8: immediately after stop the queue is empty, no cell is queued, and
\* every cell that was queued is idle.
StopEmptiesQueue ==
    last.op = "stop" =>
        /\ queue = <<>>
        /\ \A k \in DOMAIN gridData : StatusOf(gridData, k) # "queued"
        /\ \A k \in DOMAIN last.gridData :
            StatusOf(last.gridData, k) = "queued"
                => k \in DOMAIN gridData /\ StatusOf(gridData, k) = "idle"

\* C8 witness: stop with cells queued behind a loading one
StopWithQueuedCells ==
    /\ last.op = "stop"
    /\ Len(last.queue) >= 2
    /\ \E k \in DOMAIN last.gridData : StatusOf(last.gridData, k) = "queued"
    /\ \E k \in DOMAIN gridData : StatusOf(gridData, k) = "loading"

\* C9: stop does not preempt.  While the attempt that was in flight for a
\* loading cell when stop was called has not returned (and no reset or
\* rebuild has happened since), the processing flag is set, and until the
\* attempt has written its result the cell is loading.
StopIsNonPreemptive ==
    \A i \in 1..Len(running) :
        running[i].atStop =>
            /\ processing
            /\ running[i].id \in DOMAIN gridData
            /\ running[i].pc # "cooldown"
                => StatusOf(gridData, running[i].id) = "loading"

\* C10: immediately after reset the queue is empty, the processing flag is
\* clear and every cell is idle; the grid has the cells it had, each with
\* the id and the coordinate it had.
ResetIdlesEveryCell ==
    last.op = "reset" =>
        /\ queue = <<>>
        /\ ~processing
        /\ DOMAIN gridData = DOMAIN last.gridData
        /\ \A k \in DOMAIN gridData :
            /\ StatusOf(gridData, k) = "idle"
            /\ gridData[k].id = last.gridData[k].id
            /\ gridData[k].coord = last.gridData[k].coord

\* C10 witness: reset while a cell is loading, others are queued and one
\* has succeeded
ResetWhileBusy ==
    /\ last.op = "reset"
    /\ last.processing
    /\ last.queue # <<>>
    /\ \E k \in DOMAIN last.gridData : StatusOf(last.gridData, k) = "loading"
    /\ \E k \in DOMAIN last.gridData : StatusOf(last.gridData, k) = "success"

\* C11: immediately after reset no cell has result fields: imageUrl is
\* undefined, prompt is empty and characterDescription is undefined.
ResetClearsResults ==
    last.op = "reset" =>
        \A k \in DOMAIN gridData :
            /\ gridData[k].imageUrl = Undefined
            /\ gridData[k].prompt = <<>>
            /\ gridData[k].characterDescription = Undefined

\* the coordinates of a configuration
Coordinates(cfg) ==
    {<<x, y, z>> : x \in 0..(cfg.x - 1), y \in 0..(cfg.y - 1), z \in 0..(cfg.z - 1)}

\* C12: the grid a configuration change builds has stepsX * stepsY * stepsZ
\* cells, one per coordinate of the configuration and no other, no two with
\* the same id, each idle with an empty prompt and no image; for every
\* configuration with steps in 2..5.
RebuildMakesFullGrid ==
    last.op = "setAxisConfig" =>
        /\ Cardinality(DOMAIN gridData) = axisConfig.x * axisConfig.y * axisConfig.z
        /\ Len(gridOrder) = axisConfig.x * axisConfig.y * axisConfig.z
        /\ Range(gridOrder) = DOMAIN gridData
        /\ DOMAIN gridData = Coordinates(axisConfig)
        /\ \A k \in DOMAIN gridData :
            /\ gridData[k].coord = k
            /\ StatusOf(gridData, k) = "idle"
            /\ gridData[k].prompt = <<>>
            /\ gridData[k].imageUrl = Undefined
        /\ \A j, k \in DOMAIN gridData : gridData[j].id = gridData[k].id => j = k

\* C12 witness: the grid of the configuration (2, 3, 4), 24 cells
GridOfTwoThreeFour ==
    /\ last.op = "setAxisConfig"
    /\ axisConfig = [x |-> 2, y |-> 3, z |-> 4]
    /\ Cardinality(DOMAIN gridData) = 24

\* C13: immediately after a change of the axis configuration the queue is
\* empty, the processing flag is clear, and the grid is the grid of the new
\* configuration with every cell idle and without result, whatever the
\* scheduler was doing.
AxisChangeResetsScheduler ==
    last.op = "setAxisConfig" =>
        /\ queue = <<>>
        /\ ~processing
        /\ DOMAIN gridData = Coordinates(axisConfig)
        /\ \A k \in DOMAIN gridData :
            /\ StatusOf(gridData, k) = "idle"
            /\ gridData[k].imageUrl = Undefined
            /\ gridData[k].prompt = <<>>
            /\ gridData[k].characterDescription = Undefined

\* C13 witness: the axis configuration changes while a cell is loading and
\* others are queued
AxisChangeWhileLoading ==
    /\ last.op = "setAxisConfig"
    /\ last.processing
    /\ last.queue # <<>>
    /\ \E k \in DOMAIN last.gridData : StatusOf(last.gridData, k) = "loading"
    /\ \E k \in DOMAIN last.gridData : StatusOf(last.gridData, k) = "queued"

\* C14: for totalSteps >= 2 and 0 <= index < totalSteps the level returned
\* lies in 0..SOURCE_LEVELS-1 and is not above the level of the next index.
LevelInRangeAndMonotonic ==
    (call.done /\ call.totalSteps >= 2 /\ 0 <= call.index /\ call.index < call.totalSteps) =>
        /\ 0 <= call.level
        /\ call.level <= SOURCE_LEVELS - 1
        /\ call.index + 1 < call.totalSteps =>
            call.level <= mapIndexToDataLevel(call.index + 1, call.totalSteps)

\* C14 witness: the last index of an axis with more steps than levels, which
\* maps to the last level
LastIndexOfLongAxis ==
    /\ call.done
    /\ call.totalSteps > SOURCE_LEVELS
    /\ call.index = call.totalSteps - 1
    /\ call.level = SOURCE_LEVELS - 1

\* C15: for totalSteps <= 1 the level returned is 0, whatever the index.
SingleStepMapsToZero ==
    (call.done /\ call.totalSteps <= 1) => call.level = 0

\* C15 witness: a positive index with one step
PositiveIndexOfSingleStep ==
    /\ call.done
    /\ call.totalSteps = 1
    /\ call.index > 0
    /\ call.level = 0

\* an attempt that failed with a rate-limit error and whose 30 s cooldown
\* has not elapsed
InLongCooldown(inst) == inst.pc = "cooldown" /\ inst.delay = RATE_LIMIT_DELAY

\* C16: while the cooldown after a rate-limited failure has not elapsed, no
\* cell is taken from the queue and marked loading and no collaborator call
\* is issued (processQueue issues the first call of an attempt, the end of
\* the 2 s delay issues generateImage), and the failed cell is error.
CooldownHoldsScheduler ==
    /\ last.op \in {"processQueue", "settleElapses"} =>
        \A i \in 1..Len(last.running) : ~InLongCooldown(last.running[i])
    /\ last.op = "callThrows" =>
        StatusOf(gridData, last.ids[1]) = "error"

\* the 429 marker in what the error serializes to or in its message, or the
\* status 429
HasRateLimitMarker(error) ==
    \/ \E i \in 1..Len(error.json) : error.json[i] = "429"
    \/ \E i \in 1..Len(error.message) : error.message[i] = "429"
    \/ error.status = 429

\* C17: the delay after an attempt is 4000 ms after a success, 30000 ms
\* after a failure with the rate-limit marker and 1000 ms after any other
\* failure.
DelayFollowsOutcome ==
    \A i \in 1..Len(running) :
        running[i].pc = "cooldown" =>
            running[i].delay =
                IF running[i].error = NoError THEN 4000
                ELSE IF HasRateLimitMarker(running[i].error) THEN 30000
                ELSE 1000

\* C17 witness: a failure whose message alone carries the marker is followed
\* by the 30 s delay
MarkerInMessageOnly ==
    \E i \in 1..Len(running) :
        /\ running[i].pc = "cooldown"
        /\ running[i].error # NoError
        /\ running[i].error.status # 429
        /\ ~(\E j \in 1..Len(running[i].error.json) : running[i].error.json[j] = "429")
        /\ running[i].delay = 30000

\* the scheduler has nothing left to do
Drained == queue = <<>> /\ ~processing /\ running = <<>>

\* the level descriptors of the three axes
AxisDescriptors ==
    Range(X_AXIS.levels) \cup Range(Y_AXIS.levels) \cup Range(Z_AXIS.levels)

\* C18: with a default or blank subject and collaborators that succeed,
\* every cell taken from the queue gets one generateCharacterDescription
\* call and at most one generateImage call; once the scheduler has drained,
\* both counts equal the number of ids enqueued, and every enqueued cell is
\* success with a non-empty imageUrl and a prompt without level descriptors;
\* and every id in the queue leads to its cell being success, out of the
\* queue.
EnqueuedCellsSucceed ==
    /\ [](/\ calls.desc = Len(served)
          /\ calls.image <= calls.desc
          /\ Drained =>
                /\ calls.desc = Len(appended)
                /\ calls.image = Len(appended)
                /\ \A id \in Range(appended) :
                    /\ StatusOf(gridData, id) = "success"
                    /\ gridData[id].imageUrl # Undefined
                    /\ gridData[id].imageUrl # <<>>
                    /\ Range(gridData[id].prompt) \cap AxisDescriptors = {})
    /\ \A id \in Coordinates(InitialConfig) :
        (id \in Range(queue)) ~>
            (id \notin Range(queue) /\ StatusOf(gridData, id) = "success")

\* C18 witness: two cells were enqueued and the scheduler has drained after
\* two calls of each collaborator
TwoCellsDone ==
    /\ Drained
    /\ Len(appended) = 2
    /\ appended[1] # appended[2]
    /\ calls = [desc |-> 2, image |-> 2]
    /\ \A id \in Range(appended) : StatusOf(gridData, id) = "success"

\* a subject the user typed: not the default and not blank
IsExplicit(s) == s \in Subjects /\ s # DEFAULT_SUBJECT /\ \E i \in 1..Len(s) : s[i] # " "

\* the prompt of a coordinate under a configuration, for an explicit subject
ExplicitPrompt(subj, coord, cfg) ==
    subj \o <<". ",
              "Style: ", X_AXIS.levels[mapIndexToDataLevel(coord[1], cfg.x) + 1],
              "Pose/Energy: ", Y_AXIS.levels[mapIndexToDataLevel(coord[2], cfg.y) + 1],
              "Physical details: ", Z_AXIS.levels[mapIndexToDataLevel(coord[3], cfg.z) + 1],
              PROMPT_SUFFIX>>

\* C19: an attempt with an explicit subject never calls
\* generateCharacterDescription, and the prompt stored on a success cell
\* generated from an explicit subject is that subject followed by the three
\* level descriptors of the cell's coordinate under the current axis
\* configuration.
ExplicitSubjectPrompt ==
    /\ \A i \in 1..Len(running) :
        IsExplicit(running[i].subject) =>
            running[i].pc \notin {"desc", "settle"} /\ ~running[i].useGeneratedCharacter
    /\ \A k \in DOMAIN gridData :
        (StatusOf(gridData, k) = "success" /\ IsExplicit(gridData[k].characterDescription)) =>
            /\ gridData[k].coord \in Coordinates(axisConfig)
            /\ gridData[k].prompt =
                ExplicitPrompt(gridData[k].characterDescription, gridData[k].coord, axisConfig)

\* C20 as stated: Regenerate on a cell that is error or success makes the
\* cell queued.
RegenerateQueuesCell ==
    (last.op = "generateCell"
        /\ StatusOf(last.gridData, last.ids[1]) \in {"error", "success"}) =>
        StatusOf(gridData, last.ids[1]) = "queued"

\* C20 amended: Regenerate on a cell that is error makes the cell queued;
\* Regenerate on a cell that is success leaves the cell as it is, success
\* with its image, and puts its id in the queue.
RegenerateQueuesFailedCell ==
    last.op = "generateCell" =>
        /\ StatusOf(last.gridData, last.ids[1]) = "error" =>
            /\ StatusOf(gridData, last.ids[1]) = "queued"
            /\ last.ids[1] \in Range(queue)
        /\ StatusOf(last.gridData, last.ids[1]) = "success" =>
            /\ gridData[last.ids[1]] = last.gridData[last.ids[1]]
            /\ last.ids[1] \in Range(queue)

\* C20 witness: Regenerate on a success cell whose id was not in the queue
RegenerateOfSuccessCell ==
    /\ last.op = "generateCell"
    /\ StatusOf(last.gridData, last.ids[1]) = "success"
    /\ last.ids[1] \notin Range(last.queue)
    /\ StatusOf(gridData, last.ids[1]) = "success"
    /\ last.ids[1] \in Range(queue)

\* C21: when every collaborator call is answered and the user neither
\* stops, resets nor changes the axes, every id in the queue leads to its
\* cell being success or error with the id out of the queue, and the
\* scheduler drains (queue empty, flag clear) again and again, however many
\* attempts fail; once it has drained every enqueued id was taken from the
\* queue.
QueueDrains ==
    /\ \A id \in Coordinates(InitialConfig) :
        (id \in Range(queue)) ~>
            (id \notin Range(queue) /\ StatusOf(gridData, id) \in {"success", "error"})
    /\ []<>(queue = <<>> /\ ~processing)
    /\ []((queue = <<>> /\ ~processing) =>
            /\ served = appended
            /\ \A id \in Range(appended) : StatusOf(gridData, id) \in {"success", "error"})

\* C21 witness: the scheduler has drained a slice in which two attempts
\* failed and the others succeeded
SliceDrainedWithFailures ==
    /\ queue = <<>>
    /\ ~processing
    /\ Len(served) >= 4
    /\ Cardinality({id \in Range(appended) : StatusOf(gridData, id) = "error"}) = 2
    /\ \E id \in Range(appended) : StatusOf(gridData, id) = "success"

\* the changes of status a step may make
PermittedChanges(op) ==
    IF op \in EnqueueOps THEN {<<"idle", "queued">>, <<"success", "queued">>, <<"error", "queued">>}
    ELSE IF op = "processQueue" THEN {<<"queued", "loading">>}
    ELSE IF op = "imageReturns" THEN {<<"loading", "success">>}
    ELSE IF op = "callThrows" THEN {<<"loading", "error">>}
    ELSE IF op = "stop" THEN {<<"queued", "idle">>}
    ELSE IF op \in {"reset", "setAxisConfig"}
         THEN {<<"queued", "idle">>, <<"loading", "idle">>, <<"success", "idle">>,
               <<"error", "idle">>}
    ELSE {}

\* C22: every change of the status of a cell in a step is a permitted one:
\* idle to queued, queued to loading, loading to success or error, success
\* or error to queued, queued to idle by stop, any to idle by reset or
\* rebuild.
StatusChangesPermitted ==
    \A k \in DOMAIN gridData \cap DOMAIN last.gridData :
        \/ StatusOf(gridData, k) = StatusOf(last.gridData, k)
        \/ <<StatusOf(last.gridData, k), StatusOf(gridData, k)>> \in PermittedChanges(last.op)

\* C23: at most one cell is loading.
OneCellLoading ==
    Cardinality({k \in DOMAIN gridData : StatusOf(gridData, k) = "loading"}) <= 1

\* C24: the processing flag is set exactly when an invocation of
\* processQueue has started and not returned.
FlagReflectsActivity == processing <=> (running # <<>>)

\* C25: processQueue is entered only from a state in which the processing
\* flag is clear and the queue is not empty, and the flag is set when it has
\* been entered; and whenever the flag is clear and the queue is not empty,
\* processQueue is entered eventually.
LevelTriggeredEntry ==
    /\ [](last.op = "processQueue" =>
            ~last.processing /\ last.queue # <<>> /\ processing)
    /\ (~processing /\ queue # <<>>) ~> (last.op = "processQueue")

\* C25 witness: processQueue has been entered again after the attempt of
\* the cell before has ended and cleared the flag
EnteredAfterCompletion ==
    /\ last.op = "processQueue"
    /\ ~last.processing
    /\ processing
    /\ Len(served) >= 2
    /\ \E k \in DOMAIN gridData : StatusOf(gridData, k) \in {"success", "error"}

\* C26: processQueue removes the head of the queue and nothing else, keeps
\* the order of the rest, marks the cell of the head loading and leaves
\* every other cell, and every other field of that cell, as it was.
PassTakesHeadOnly ==
    last.op = "processQueue" =>
        /\ <<Head(last.queue)>> \o queue = last.queue
        /\ DOMAIN gridData = DOMAIN last.gridData
        /\ \A k \in DOMAIN gridData :
            IF k = Head(last.queue)
            THEN gridData[k] = [last.gridData[k] EXCEPT !.status = "loading"]
            ELSE gridData[k] = last.gridData[k]

\* C26 witness: processQueue has taken the head of a queue of several ids,
\* whose cells stay queued
HeadTakenOthersQueued ==
    /\ last.op = "processQueue"
    /\ Len(last.queue) >= 3
    /\ StatusOf(gridData, Head(last.queue)) = "loading"
    /\ \A k \in Range(queue) : StatusOf(gridData, k) = "queued"

\* the events of an attempt that called generateCharacterDescription, up to
\* the call of generateImage
DescribedFirst == <<"generateCharacterDescription", "described", "settled", "generateImage">>

IsPrefix(s, t) == Len(s) <= Len(t) /\ SubSeq(t, 1, Len(s)) = s

Occurrences(s, e) == Cardinality({i \in 1..Len(s) : s[i] = e})

\* C27: in an attempt that calls generateCharacterDescription, generateImage
\* is called only after the description has returned and the 2 s timer has
\* fired; if generateCharacterDescription throws, generateImage is not
\* called in that attempt, and the failure step leaves the cell error.
DescriptionPrecedesImage ==
    /\ \A i \in 1..Len(running) :
        LET ev == running[i].events
        IN  /\ Occurrences(ev, "generateImage") <= 1
            /\ (ev[1] = "generateCharacterDescription" /\ Occurrences(ev, "generateImage") = 1)
                => IsPrefix(DescribedFirst, ev)
            /\ IsPrefix(<<"generateCharacterDescription", "threw">>, ev)
                => /\ Occurrences(ev, "generateImage") = 0
                   /\ running[i].pc = "cooldown"
    /\ last.op = "callThrows" => StatusOf(gridData, last.ids[1]) = "error"

\* C27 witness: generateCharacterDescription has thrown, the attempt is in
\* its delay without having called generateImage, and the cell is error
DescriptionThrew ==
    /\ last.op = "callThrows"
    /\ \E i \in 1..Len(running) :
        /\ running[i].id = last.ids[1]
        /\ running[i].events = <<"generateCharacterDescription", "threw">>
    /\ StatusOf(gridData, last.ids[1]) = "error"
    /\ calls.image = 0

\* C28: an attempt calls generateCharacterDescription exactly when the
\* subject it runs with, the subject at the time processQueue was entered,
\* is blank or the default; and once it has called generateImage, its prompt
\* is free of level descriptors exactly when the description was generated
\* in the attempt: then it is the description and the suffix, otherwise the
\* raw subject followed by the three level descriptors of the coordinate.
DescriptionIffNoSubject ==
    /\ (last.op = "processQueue" /\ Len(running) > Len(last.running)) =>
            running[Len(running)].subject = subject
    /\ \A i \in 1..Len(running) :
        LET inst == running[i]
        IN  /\ (inst.events[1] = "generateCharacterDescription") <=> ~IsExplicit(inst.subject)
            /\ Occurrences(inst.events, "generateImage") = 1 =>
                /\ inst.useGeneratedCharacter <=> (Occurrences(inst.events, "described") = 1)
                /\ (Range(inst.prompt) \cap AxisDescriptors = {}) <=> inst.useGeneratedCharacter
                /\ inst.useGeneratedCharacter =>
                        inst.prompt = DescriptionText \o <<". ", PROMPT_SUFFIX>>
                /\ ~inst.useGeneratedCharacter =>
                        inst.prompt = ExplicitPrompt(inst.subject, inst.coord, inst.cfg)

\* C28 witness: an attempt with a blank, non-default subject has generated a
\* description and called generateImage with a prompt free of level
\* descriptors
BlankSubjectDescribed ==
    \E i \in 1..Len(running) :
        /\ running[i].subject = <<" ">>
        /\ running[i].useGeneratedCharacter
        /\ Occurrences(running[i].events, "generateImage") = 1
        /\ Range(running[i].prompt) \cap AxisDescriptors = {}

\* C29 as stated: when generateImage resolves, the cell of the attempt is
\* success with the image and the prompt of the attempt stored, and its
\* characterDescription is the generated description if the attempt
\* generated one and is left as it was if the attempt used the raw subject.
SuccessStoresResult ==
    last.op = "imageReturns" =>
        \E i \in 1..Len(running) :
            LET inst == running[i]
                id   == last.ids[1]
                before == IF id \in DOMAIN last.gridData
                          THEN last.gridData[id].characterDescription
                          ELSE Undefined
            IN  /\ inst.id = id
                /\ inst.events[Len(inst.events)] = "generated"
                /\ StatusOf(gridData, id) = "success"
                /\ gridData[id].imageUrl = ImageData
                /\ gridData[id].prompt = inst.prompt
                /\ inst.useGeneratedCharacter =>
                        gridData[id].characterDescription = DescriptionText
                /\ ~inst.useGeneratedCharacter =>
                        gridData[id].characterDescription = before

\* C30: the step in which a collaborator call throws sets the status of the
\* attempted cell to error and changes nothing else of the grid: the other
\* fields of that cell and every other cell are as before, no other key
\* appears or disappears, and the queue and the processing flag are as
\* before.
FailureTouchesOneCell ==
    last.op = "callThrows" =>
        LET id == last.ids[1]
        IN  /\ StatusOf(gridData, id) = "error"
            /\ queue = last.queue
            /\ processing = last.processing
            /\ DOMAIN gridData = DOMAIN last.gridData \cup {id}
            /\ \A k \in DOMAIN last.gridData :
                IF k = id
                THEN gridData[k] = [last.gridData[k] EXCEPT !.status = "error"]
                ELSE gridData[k] = last.gridData[k]

\* C30 witness: a call has thrown while other cells were waiting in the
\* queue as queued, and they still are
FailureWithQueuedCells ==
    /\ last.op = "callThrows"
    /\ StatusOf(gridData, last.ids[1]) = "error"
    /\ Len(queue) >= 2
    /\ \A k \in Range(queue) : k # last.ids[1] /\ StatusOf(gridData, k) = "queued"

\* C31: stop changes, of the grid, only the status of the cells that were
\* queued.  Every cell that was not queued is as it was, status included;
\* a cell that was queued keeps every field but its status; no key appears
\* or disappears; and the processing flag is as it was.
StopTouchesQueuedOnly ==
    last.op = "stop" =>
        /\ processing = last.processing
        /\ DOMAIN gridData = DOMAIN last.gridData
        /\ \A k \in DOMAIN gridData :
            IF StatusOf(last.gridData, k) = "queued"
            THEN gridData[k] = [last.gridData[k] EXCEPT !.status = "idle"]
            ELSE gridData[k] = last.gridData[k]

\* C31 witness: stop with one cell loading, one cell success with its image
\* and its prompt, and one cell queued; afterwards the first two are as they
\* were and the third is idle
StopWithLoadingAndSuccess ==
    /\ last.op = "stop"
    /\ processing
    /\ \E k \in DOMAIN gridData :
        StatusOf(last.gridData, k) = "loading" /\ StatusOf(gridData, k) = "loading"
    /\ \E k \in DOMAIN gridData :
        /\ StatusOf(last.gridData, k) = "success"
        /\ StatusOf(gridData, k) = "success"
        /\ gridData[k].imageUrl = ImageData
        /\ gridData[k].prompt # <<>>
    /\ \E k \in DOMAIN gridData :
        StatusOf(last.gridData, k) = "queued" /\ StatusOf(gridData, k) = "idle"

\* the grid as reset and rebuild leave it: the queue empty, every cell idle
\* and without an image
Cleared(q, grid) ==
    /\ q = <<>>
    /\ \A k \in DOMAIN grid : StatusOf(grid, k) = "idle" /\ grid[k].imageUrl = Undefined

\* C32 as stated: from the grid as reset or rebuild left it, and as it is
\* for as long as nothing is enqueued, a step that is not an enqueue leaves
\* every cell idle and without an image, whether or not an attempt was in
\* flight when the grid was cleared.
ClearedGridStaysCleared ==
    (Cleared(last.queue, last.gridData) /\ last.op \notin EnqueueOps \cup {"mount"})
        => Cleared(queue, gridData)

\* C33: every cell that is success has an image, the data URI generateImage
\* returned, and a non-empty prompt.
SuccessHasImageAndPrompt ==
    \A k \in DOMAIN gridData :
        StatusOf(gridData, k) = "success" =>
            /\ gridData[k].imageUrl # Undefined
            /\ gridData[k].imageUrl = ImageData
            /\ gridData[k].prompt # <<>>

\* C33 witness: after a reset that cleared the image of a success cell,
\* another attempt has succeeded: one cell is idle with the prompt of its
\* earlier success and no image, another is success with image and prompt
SuccessAfterReset ==
    /\ \E k \in DOMAIN gridData :
        /\ StatusOf(gridData, k) = "success"
        /\ gridData[k].imageUrl = ImageData
        /\ gridData[k].prompt # <<>>
    /\ \E k \in DOMAIN gridData :
        /\ StatusOf(gridData, k) = "idle"
        /\ gridData[k].imageUrl = Undefined
        /\ gridData[k].prompt # <<>>

\* C34: the key of every queued cell is in the queue, exactly once, and a
\* step that takes a key out of the queue does not leave the cell of that
\* key queued.
QueuedCellsKeepTheirKey ==
    /\ \A k \in DOMAIN gridData :
        StatusOf(gridData, k) = "queued" =>
            Cardinality({i \in 1..Len(queue) : queue[i] = k}) = 1
    /\ \A k \in Range(last.queue) \ Range(queue) :
        k \in DOMAIN gridData => StatusOf(gridData, k) # "queued"

\* C34 witness: Regenerate while one cell is loading and others wait: the
\* queue holds the cells that waited and the new one, all of them queued
QueuedBehindLoading ==
    /\ last.op = "generateCell"
    /\ last.processing
    /\ last.queue # <<>>
    /\ Len(queue) = Len(last.queue) + 1
    /\ \A k \in Range(queue) : StatusOf(gridData, k) = "queued"
    /\ \E k \in DOMAIN gridData : StatusOf(gridData, k) = "loading"

\* C35: Regenerate on a cell that is loading appends its id to the queue
\* and leaves the cell loading with the fields it had; and while every call
\* is answered and the user neither stops, resets nor changes the axes, a
\* loading cell whose id is in the queue is, after its attempt has ended
\* with success or error, taken from the queue by a later pass and loading
\* once more: the pass after the n-th is the (n+1)-th for that id.
EnqueueWhileLoadingIsKept ==
    /\ [](\A id \in Coordinates(InitialConfig) :
            (last.op = "generateCell" /\ last.ids = <<id>>
                /\ StatusOf(last.gridData, id) = "loading") =>
                    /\ queue = Unique(last.queue \o <<id>>)
                    /\ id \in Range(queue)
                    /\ gridData = last.gridData)
    /\ \A id \in Coordinates(InitialConfig) : \A n \in 1..MaxDrainOps :
        (StatusOf(gridData, id) = "loading" /\ id \in Range(queue)
            /\ Occurrences(served, id) = n)
        ~> (/\ last.op = "processQueue" /\ last.ids = <<id>>
            /\ StatusOf(last.gridData, id) \in {"success", "error"}
            /\ StatusOf(gridData, id) = "loading"
            /\ id \notin Range(queue)
            /\ Occurrences(served, id) = n + 1)

\* C35 witness: Regenerate was clicked on the loading cell while other cells
\* waited; its id is at the end of the queue and the cell is loading still
LoadingCellEnqueued ==
    /\ last.op = "generateCell"
    /\ StatusOf(last.gridData, last.ids[1]) = "loading"
    /\ StatusOf(gridData, last.ids[1]) = "loading"
    /\ Len(queue) >= 2
    /\ queue[Len(queue)] = last.ids[1]
    /\ last.ids[1] \notin Range(last.queue)

\* the steps that are a failed attempt, a stop or an enqueue
KeepingOps == {"callThrows", "stop"} \cup EnqueueOps

\* C36: a failed attempt, a stop and an enqueue leave the imageUrl and the
\* prompt of every cell as they were; and a cell that has an image has one
\* after every step that is neither a reset nor a rebuild.
ResultsOutliveFailureAndStop ==
    /\ last.op \in KeepingOps =>
        \A k \in DOMAIN last.gridData :
            /\ k \in DOMAIN gridData
            /\ gridData[k].imageUrl = last.gridData[k].imageUrl
            /\ gridData[k].prompt = last.gridData[k].prompt
    /\ last.op \notin {"reset", "setAxisConfig"} =>
        \A k \in DOMAIN last.gridData :
            last.gridData[k].imageUrl # Undefined =>
                k \in DOMAIN gridData /\ gridData[k].imageUrl # Undefined

\* C36 witness: the regeneration of a cell that had succeeded has failed;
\* the cell is error with the image and the prompt of its success
FailedRegenerationKeepsImage ==
    /\ last.op = "callThrows"
    /\ StatusOf(gridData, last.ids[1]) = "error"
    /\ gridData[last.ids[1]].imageUrl = ImageData
    /\ gridData[last.ids[1]].prompt # <<>>

\* C37: for a step count the axis buttons offer (MinSteps..MaxSteps) and
\* 0 <= index < totalSteps, index 0 maps to level 0, the last index maps to
\* the last level, the level is below the level of the next index, and no
\* other index of the axis maps to the same level.
LevelsDistinctOnOfferedAxes ==
    (call.done /\ call.totalSteps \in MinSteps..MaxSteps
        /\ 0 <= call.index /\ call.index < call.totalSteps) =>
        /\ call.index = 0 => call.level = 0
        /\ call.index = call.totalSteps - 1 => call.level = SOURCE_LEVELS - 1
        /\ call.index + 1 < call.totalSteps =>
            call.level < mapIndexToDataLevel(call.index + 1, call.totalSteps)
        /\ \A j \in 0..(call.totalSteps - 1) :
            j # call.index => mapIndexToDataLevel(j, call.totalSteps) # call.level

\* C37 witness: index 2 of four steps, where the quotient 8/3 is rounded up
\* to level 3
ThirdOfFourSteps ==
    /\ call.done
    /\ call.totalSteps = 4
    /\ call.index = 2
    /\ call.level = 3
====
